---- MODULE Spec2Model ----
(***************************************************************************)
(* Model of the `paths` crate: AbsolutePath / AbsolutePathBuf,             *)
(* RelativePath / RelativePathBuf and CombinedPath / CombinedPathBuf.      *)
(*                                                                         *)
(* A path is its raw text: a sequence of one-character strings.  What the  *)
(* crate reads from a path it reads through std::path (is_absolute,        *)
(* components, join, parent, display), modelled here for Unix paths.       *)
(***************************************************************************)
EXTENDS Integers, Sequences, FiniteSets, TLC

\* Longest input, counted in separator-delimited segments.
MaxSegs == 3
\* Longest receiver (raw characters) an operation is applied to.
MaxRecv == 4
\* Longest candidate of a chained join, in segments.
MaxChain == 2

Sep == "/"
Dot == <<".">>
DotDot == <<".", ".">>
RootDir == <<"/">>

\* The segments inputs are built from: empty (doubled or trailing
\* separator), `.`, `..` and two regular names.
Segments == {<<>>, Dot, DotDot, <<"a">>, <<"b">>}

RECURSIVE JoinSegs(_)
JoinSegs(ts) ==
    IF ts = <<>> THEN <<>>
    ELSE IF Len(ts) = 1 THEN ts[1]
    ELSE ts[1] \o <<Sep>> \o JoinSegs(Tail(ts))

SegSeqs == UNION {[1..k -> Segments] : k \in 0..MaxSegs}

\* The raw paths handed to the constructors and to join.
Inputs == {JoinSegs(ts) : ts \in SegSeqs} \cup {<<Sep>> \o JoinSegs(ts) : ts \in SegSeqs}

\* The candidates of a chained join: made of the empty segment, `..` and
\* one regular name.
ChainSegments == {<<>>, DotDot, <<"a">>}

ChainArgs == {JoinSegs(ts) : ts \in UNION {[1..k -> ChainSegments] : k \in 0..MaxChain}}

----------------------------------------------------------------------------
(* std::path as the crate uses it *)

is_absolute(p) == Len(p) > 0 /\ p[1] = Sep

is_relative(p) == ~is_absolute(p)

\* Display of a Unix path made of ASCII characters is its raw text.
display(p) == p

RECURSIVE SplitFrom(_, _, _)
SplitFrom(p, i, cur) ==
    IF i > Len(p) THEN <<cur>>
    ELSE IF p[i] = Sep THEN <<cur>> \o SplitFrom(p, i + 1, <<>>)
    ELSE SplitFrom(p, i + 1, Append(cur, p[i]))

\* The separator-delimited segments of the raw text, empty ones included.
RawSegments(p) == SplitFrom(p, 1, <<>>)

\* A leading `.` of a root-absent path is the only `.` that components() yields.
include_cur_dir(p) ==
    /\ is_relative(p)
    /\ Len(p) > 0
    /\ p[1] = "."
    /\ (Len(p) = 1 \/ p[2] = Sep)

IsBodySegment(s) == s # <<>> /\ s # Dot

\* Path::components(): RootDir when the path has a root, CurDir for a
\* leading `.` of a relative path, then every non-empty segment that is not `.`.
components(p) ==
    (IF is_absolute(p) THEN <<RootDir>> ELSE <<>>)
    \o (IF include_cur_dir(p) THEN <<Dot>> ELSE <<>>)
    \o SelectSeq(RawSegments(p), IsBodySegment)

\* PathBuf::push: an absolute argument replaces the buffer, otherwise a
\* separator is added when the buffer does not end in one.
push(buf, p) ==
    IF is_absolute(p) THEN p
    ELSE IF Len(buf) > 0 /\ buf[Len(buf)] # Sep THEN buf \o <<Sep>> \o p
    ELSE buf \o p

\* Path::join
join(base, p) == push(base, p)

RECURSIVE from_iter_acc(_, _, _)
from_iter_acc(cs, i, buf) ==
    IF i > Len(cs) THEN buf ELSE from_iter_acc(cs, i + 1, push(buf, cs[i]))

\* PathBuf::from_iter
from_iter(cs) == from_iter_acc(cs, 1, <<>>)


\* Results of the crate's operations: a value of a path type, no value
\* (Option::None), an error with its display strings, or a panic.
Ok(t, p) == [tag |-> "Ok", err |-> "", type |-> t, path |-> p, msg |-> <<>>]

Err(e, m) == [tag |-> "Err", err |-> e, type |-> "", path |-> <<>>, msg |-> m]

None == [tag |-> "None", err |-> "", type |-> "", path |-> <<>>, msg |-> <<>>]

Panic == [tag |-> "Panic", err |-> "", type |-> "", path |-> <<>>, msg |-> <<>>]

\* Number of components before the body: the root or a leading `.`.
len_before_body(p) ==
    (IF is_absolute(p) THEN 1 ELSE 0) + (IF include_cur_dir(p) THEN 1 ELSE 0)

\* Index of the last character of the n-th body segment of the raw text.
RECURSIVE BodyEnd(_, _, _, _)
BodyEnd(p, i, cur, n) ==
    IF i > Len(p) \/ p[i] = Sep
    THEN IF IsBodySegment(cur)
         THEN IF n = 1 THEN i - 1 ELSE BodyEnd(p, i + 1, <<>>, n - 1)
         ELSE IF i > Len(p) THEN Len(p) ELSE BodyEnd(p, i + 1, <<>>, n)
    ELSE BodyEnd(p, i + 1, Append(cur, p[i]), n)

\* Path::parent(): None for the empty path and for a path that ends in its
\* root; otherwise the raw text up to the end of the component before the
\* last one.
parent(p) ==
    LET cs == components(p)
        k == Len(cs)
        nb == k - 1 - len_before_body(p)
    IN  IF k = 0 \/ cs[k] = RootDir THEN None
        ELSE IF k = 1 THEN Ok("Path", <<>>)
        ELSE IF nb = 0 THEN Ok("Path", SubSeq(p, 1, 1))
        ELSE Ok("Path", SubSeq(p, 1, BodyEnd(p, 1, <<>>, nb)))

\* Path == Path compares the components, not the raw text.
PathEq(p, q) == components(p) = components(q)

----------------------------------------------------------------------------
(* absolute.rs *)

AbsolutePath_try_new(path) ==
    IF is_relative(path) THEN Err("NotAbsolute", <<display(path)>>)
    ELSE IF \E i \in 1..Len(components(path)) :
                components(path)[i] = Dot \/ components(path)[i] = DotDot
         THEN Err("WasNotNormalized", <<display(path)>>)
         ELSE Ok("AbsolutePath", path)

AbsolutePath_new_unchecked(path) ==
    LET r == AbsolutePath_try_new(path)
    IN  IF r.tag = "Ok" THEN r ELSE Panic

needs_normalization(p) ==
    \E i \in 1..Len(components(p)) : components(p)[i] = Dot \/ components(p)[i] = DotDot

\* The loop with a `..` that is skipped like a `.` instead of popping.
RECURSIVE AbsolutePathBuf_collapse_nopop(_, _, _)
AbsolutePathBuf_collapse_nopop(cs, i, new_pb) ==
    IF i > Len(cs) THEN [failed |-> FALSE, new_pb |-> new_pb]
    ELSE IF cs[i] = Dot \/ cs[i] = DotDot
         THEN AbsolutePathBuf_collapse_nopop(cs, i + 1, new_pb)
         ELSE AbsolutePathBuf_collapse_nopop(cs, i + 1, Append(new_pb, cs[i]))

\* The loop of AbsolutePathBuf::try_new over p.components(): `.` is skipped,
\* `..` pops new_pb and fails when there is nothing to pop, anything else
\* (the root component included) is pushed.
RECURSIVE AbsolutePathBuf_collapse(_, _, _)
AbsolutePathBuf_collapse(cs, i, new_pb) ==
    IF i > Len(cs) THEN [failed |-> FALSE, new_pb |-> new_pb]
    ELSE IF cs[i] = Dot THEN AbsolutePathBuf_collapse(cs, i + 1, new_pb)
    ELSE IF cs[i] = DotDot
         THEN IF new_pb = <<>>
              THEN [failed |-> TRUE, new_pb |-> new_pb]
              ELSE AbsolutePathBuf_collapse(cs, i + 1, SubSeq(new_pb, 1, Len(new_pb) - 1))
         ELSE AbsolutePathBuf_collapse(cs, i + 1, Append(new_pb, cs[i]))

\* The constructor rejecting a collapse that leaves the root alone.
AbsolutePathBuf_try_new_rootless(p) ==
    IF is_relative(p) THEN Err("NotAbsolute", <<display(p)>>)
    ELSE IF ~needs_normalization(p) THEN Ok("AbsolutePathBuf", p)
    ELSE LET c == AbsolutePathBuf_collapse(components(p), 1, <<>>)
         IN  IF c.failed THEN Err("NormalizationFailed", <<display(p)>>)
             ELSE IF Len(c.new_pb) <= 1 THEN Err("NormalizationFailed", <<display(p)>>)
             ELSE Ok("AbsolutePathBuf", from_iter(c.new_pb))

\* The constructor without the check that new_pb is not empty.
AbsolutePathBuf_try_new_noempty(p) ==
    IF is_relative(p) THEN Err("NotAbsolute", <<display(p)>>)
    ELSE IF ~needs_normalization(p) THEN Ok("AbsolutePathBuf", p)
    ELSE LET c == AbsolutePathBuf_collapse(components(p), 1, <<>>)
         IN  IF c.failed THEN Err("NormalizationFailed", <<display(p)>>)
             ELSE Ok("AbsolutePathBuf", from_iter(c.new_pb))

\* The constructor answering the root when new_pb ends empty.
AbsolutePathBuf_try_new_emptyroot(p) ==
    IF is_relative(p) THEN Err("NotAbsolute", <<display(p)>>)
    ELSE IF ~needs_normalization(p) THEN Ok("AbsolutePathBuf", p)
    ELSE LET c == AbsolutePathBuf_collapse(components(p), 1, <<>>)
         IN  IF c.failed THEN Err("NormalizationFailed", <<display(p)>>)
             ELSE IF c.new_pb = <<>> THEN Ok("AbsolutePathBuf", RootDir)
             ELSE Ok("AbsolutePathBuf", from_iter(c.new_pb))

\* The constructor running the collapse on every root-present input.
AbsolutePathBuf_try_new_always(p) ==
    IF is_relative(p) THEN Err("NotAbsolute", <<display(p)>>)
    ELSE LET c == AbsolutePathBuf_collapse(components(p), 1, <<>>)
         IN  IF c.failed THEN Err("NormalizationFailed", <<display(p)>>)
             ELSE IF c.new_pb = <<>> THEN Err("NormalizationFailed", <<display(p)>>)
             ELSE Ok("AbsolutePathBuf", from_iter(c.new_pb))

AbsolutePathBuf_try_new(p) ==
    IF is_relative(p) THEN Err("NotAbsolute", <<display(p)>>)
    ELSE IF ~needs_normalization(p) THEN Ok("AbsolutePathBuf", p)
    ELSE LET c == AbsolutePathBuf_collapse(components(p), 1, <<>>)
         IN  IF c.failed THEN Err("NormalizationFailed", <<display(p)>>)
             ELSE IF c.new_pb = <<>> THEN Err("NormalizationFailed", <<display(p)>>)
             ELSE Ok("AbsolutePathBuf", from_iter(c.new_pb))

AbsolutePathBuf_new_unchecked(path) ==
    LET r == AbsolutePathBuf_try_new(path)
    IN  IF r.tag = "Ok" THEN r ELSE Panic

\* map_err of the joins: NormalizationFailed passes, NotAbsolute is unreachable!().
JoinMapErr(r) ==
    IF r.tag = "Ok" THEN r
    ELSE IF r.err = "NormalizationFailed" THEN r
    ELSE Panic

\* The join appending the candidate's text without a separator.
AbsolutePath_join_nosep(self, path) ==
    IF is_absolute(path)
    THEN Err("JoinedAbsolute", <<display(self), display(path)>>)
    ELSE JoinMapErr(AbsolutePathBuf_try_new(self \o path))

AbsolutePath_join(self, path) ==
    IF is_absolute(path)
    THEN Err("JoinedAbsolute", <<display(self), display(path)>>)
    ELSE JoinMapErr(AbsolutePathBuf_try_new(join(self, path)))

\* The join_relative pushing the base onto the relative path.
AbsolutePath_join_relative_swapped(self, path) ==
    JoinMapErr(AbsolutePathBuf_try_new(join(path, self)))

AbsolutePath_join_relative(self, path) ==
    JoinMapErr(AbsolutePathBuf_try_new(join(self, path)))

\* The parent that answers the root for the root, as `/..` does in a file system.
AbsolutePath_parent_rootloop(self) ==
    LET q == parent(self)
    IN  IF q.tag = "None" THEN AbsolutePath_new_unchecked(self)
        ELSE AbsolutePath_new_unchecked(q.path)

AbsolutePath_parent(self) ==
    LET q == parent(self)
    IN  IF q.tag = "None" THEN None ELSE AbsolutePath_new_unchecked(q.path)

AbsolutePathBuf_as_absolute_path(self) == AbsolutePath_new_unchecked(self)

AbsolutePathBuf_join(self, path) ==
    IF is_absolute(path)
    THEN Err("JoinedAbsolute", <<display(self), display(path)>>)
    ELSE JoinMapErr(AbsolutePathBuf_try_new(join(self, path)))

AbsolutePathBuf_join_relative(self, path) ==
    JoinMapErr(AbsolutePathBuf_try_new(join(self, path)))

AbsolutePathBuf_parent(self) ==
    LET q == parent(self)
    IN  IF q.tag = "None" THEN None ELSE AbsolutePath_new_unchecked(q.path)

\* impl From<&AbsolutePath> for AbsolutePathBuf
AbsolutePathBuf_from(ap) == AbsolutePathBuf_new_unchecked(ap)

\* The quote the #[error] format strings put around a payload (a backtick).
Quote == "'"

\* Display of an error: the #[error] format string around the payload.
Display(e) ==
    IF e.err = "NormalizationFailed"
    THEN <<Quote>> \o e.msg[1] \o <<"' could not be normalized">>
    ELSE IF e.err = "NotAbsolute"
    THEN <<Quote>> \o e.msg[1] \o <<"' was not an absolute path">>
    ELSE IF e.err = "NotRelative"
    THEN <<Quote>> \o e.msg[1] \o <<"' was not a relative path">>
    ELSE IF e.err = "WasNotNormalized"
    THEN <<Quote>> \o e.msg[1] \o <<"' must be normalized, but contained '.' or '..'">>
    ELSE <<"Attempted to join '">> \o e.msg[1] \o <<"' to non-relative path '">>
         \o e.msg[2] \o <<Quote>>

\* map_err(|e| D::Error::custom(format!("{}", e)))
DeCustom(r) ==
    IF r.tag = "Err" THEN Err("serde::de::Error::custom", <<Display(r)>>) ELSE r

\* `?` inside from_sql: the error is boxed as Box<dyn Error + Send + Sync>.
Boxed(r) ==
    IF r.tag = "Err" THEN [r EXCEPT !.type = "Box<dyn Error + Send + Sync>"] ELSE r

AbsolutePathBuf_from_str(s) == AbsolutePathBuf_try_new(s)

\* The deserializer that wraps the text without validating it.
AbsolutePathBuf_deserialize_raw(path) == Ok("AbsolutePathBuf", path)

AbsolutePathBuf_deserialize(path) == DeCustom(AbsolutePathBuf_try_new(path))

AbsolutePathBuf_from_sql(s) == Boxed(AbsolutePathBuf_try_new(s))

\* The text handed to a serializer or written to a text column.
Text(s) == [tag |-> "Text", err |-> "", type |-> "str", path |-> s, msg |-> <<>>]

\* PathBuf::serialize: the path as a string.
AbsolutePathBuf_serialize(self) == Text(display(self))

\* self.0.to_str().expect("paths should be utf8").to_sql(out)
AbsolutePathBuf_to_sql(self) == Text(display(self))

----------------------------------------------------------------------------
(* relative.rs *)

\* The constructor without the check of the root.
RelativePath_try_new_any(path) == Ok("RelativePath", path)

RelativePath_try_new(path) ==
    IF is_absolute(path) THEN Err("NotRelative", <<display(path)>>)
    ELSE Ok("RelativePath", path)

RelativePath_new_unchecked(path) ==
    LET r == RelativePath_try_new(path)
    IN  IF r.tag = "Ok" THEN r ELSE Panic

\* The loop of RelativePathBuf::try_new: as the absolute one, but a `..`
\* that finds new_pb empty is pushed instead of failing.
RECURSIVE RelativePathBuf_collapse(_, _, _)
RelativePathBuf_collapse(cs, i, new_pb) ==
    IF i > Len(cs) THEN new_pb
    ELSE IF cs[i] = Dot THEN RelativePathBuf_collapse(cs, i + 1, new_pb)
    ELSE IF cs[i] = DotDot
         THEN IF new_pb = <<>>
              THEN RelativePathBuf_collapse(cs, i + 1, Append(new_pb, cs[i]))
              ELSE RelativePathBuf_collapse(cs, i + 1, SubSeq(new_pb, 1, Len(new_pb) - 1))
         ELSE RelativePathBuf_collapse(cs, i + 1, Append(new_pb, cs[i]))

RelativePathBuf_try_new(p) ==
    IF is_absolute(p) THEN Err("NotRelative", <<display(p)>>)
    ELSE IF ~needs_normalization(p) THEN Ok("RelativePathBuf", p)
    ELSE Ok("RelativePathBuf", from_iter(RelativePathBuf_collapse(components(p), 1, <<>>)))

\* .expect(..) on a constructor's result
Expect(r) == IF r.tag = "Ok" THEN r ELSE Panic

\* The join without the check of the candidate: as Path::join, an absolute
\* candidate replaces the receiver.
RelativePath_join_unchecked(self, path) ==
    IF is_absolute(path) THEN Ok("RelativePathBuf", join(self, path))
    ELSE Expect(RelativePathBuf_try_new(join(self, path)))

RelativePath_join(self, path) ==
    IF is_absolute(path)
    THEN Err("JoinedAbsolute", <<display(self), display(path)>>)
    ELSE Expect(RelativePathBuf_try_new(join(self, path)))

RelativePath_try_into_absolute(self, abs) == AbsolutePath_join_relative(abs, self)

RelativePathBuf_as_relative_path(self) == RelativePath_new_unchecked(self)

\* The join returning the concatenation as it is, uncollapsed.
RelativePathBuf_join_raw(self, path) ==
    IF is_absolute(path)
    THEN Err("JoinedAbsolute", <<display(self), display(path)>>)
    ELSE Ok("RelativePathBuf", join(self, path))

RelativePathBuf_join(self, path) ==
    IF is_absolute(path)
    THEN Err("JoinedAbsolute", <<display(self), display(path)>>)
    ELSE Expect(RelativePathBuf_try_new(join(self, path)))

RelativePathBuf_try_into_absolute(self, abs) ==
    LET r == RelativePathBuf_as_relative_path(self)
    IN  IF r.tag = "Ok" THEN AbsolutePath_join_relative(abs, r.path) ELSE Panic

----------------------------------------------------------------------------
(* combined.rs *)

\* A bool a predicate returned, and a borrowed &Path.
Bool(b) ==
    [tag |-> IF b THEN "true" ELSE "false", err |-> "", type |-> "bool",
     path |-> <<>>, msg |-> <<>>]

Ref(p) == [tag |-> "Ref", err |-> "", type |-> "Path", path |-> p, msg |-> <<>>]

CombinedPath_try_new(path) ==
    IF is_absolute(path)
    THEN LET r == AbsolutePath_try_new(path)
         IN  IF r.tag = "Ok" THEN Ok("CombinedPath::Absolute", r.path)
             ELSE IF r.err = "WasNotNormalized" THEN r
             ELSE Panic
    ELSE LET r == Expect(RelativePath_try_new(path))
         IN  IF r.tag = "Ok" THEN Ok("CombinedPath::Relative", r.path) ELSE r

CombinedPath_as_path(self) == Ref(self.path)

\* The resolution joining either variant onto the base.
CombinedPath_try_into_absolute_alwaysjoin(self, resolve_against) ==
    AbsolutePath_join(resolve_against, self.path)

CombinedPath_try_into_absolute(self, resolve_against) ==
    IF self.type = "CombinedPath::Relative"
    THEN RelativePath_try_into_absolute(self.path, resolve_against)
    ELSE AbsolutePathBuf_from(self.path)

CombinedPath_is_relative(self) == self.type = "CombinedPath::Relative"

CombinedPath_is_absolute(self) == self.type = "CombinedPath::Absolute"

\* The constructor choosing the variant by the root of the normalized path.
CombinedPathBuf_try_new_byresult(path) ==
    IF is_absolute(path)
    THEN LET r == AbsolutePathBuf_try_new(path)
         IN  IF r.tag = "Ok"
             THEN IF is_absolute(r.path) THEN Ok("CombinedPathBuf::Absolute", r.path)
                  ELSE Ok("CombinedPathBuf::Relative", r.path)
             ELSE IF r.err = "NormalizationFailed" THEN r
             ELSE Panic
    ELSE LET r == Expect(RelativePathBuf_try_new(path))
         IN  IF r.tag = "Ok" THEN Ok("CombinedPathBuf::Relative", r.path) ELSE r

CombinedPathBuf_try_new(path) ==
    IF is_absolute(path)
    THEN LET r == AbsolutePathBuf_try_new(path)
         IN  IF r.tag = "Ok" THEN Ok("CombinedPathBuf::Absolute", r.path)
             ELSE IF r.err = "NormalizationFailed" THEN r
             ELSE Panic
    ELSE LET r == Expect(RelativePathBuf_try_new(path))
         IN  IF r.tag = "Ok" THEN Ok("CombinedPathBuf::Relative", r.path) ELSE r

CombinedPathBuf_from_str(s) == CombinedPathBuf_try_new(s)

CombinedPathBuf_deserialize(path) == DeCustom(CombinedPathBuf_try_new(path))

CombinedPathBuf_from_sql(s) == Boxed(CombinedPathBuf_try_new(s))

\* Both arms hand the wrapped path to its own serializer.
CombinedPathBuf_serialize(self) ==
    IF self.type = "CombinedPathBuf::Absolute"
    THEN AbsolutePathBuf_serialize(self.path)
    ELSE Text(display(self.path))

CombinedPathBuf_to_sql(self) ==
    IF self.type = "CombinedPathBuf::Absolute"
    THEN AbsolutePathBuf_to_sql(self.path)
    ELSE Text(display(self.path))

CombinedPathBuf_as_path(self) == Ref(self.path)

CombinedPathBuf_try_into_absolute(self, resolve_against) ==
    IF self.type = "CombinedPathBuf::Relative"
    THEN RelativePathBuf_try_into_absolute(self.path, resolve_against)
    ELSE Ok("AbsolutePathBuf", self.path)

CombinedPathBuf_is_relative(self) == self.type = "CombinedPathBuf::Relative"

CombinedPathBuf_is_absolute(self) == self.type = "CombinedPathBuf::Absolute"

----------------------------------------------------------------------------
(* The state: the path value the caller holds, and the last call made. *)

VARIABLES val, out

vars == <<val, out>>

NoValue == [type |-> "", path |-> <<>>]

Value(r) == [type |-> r.type, path |-> r.path]

Idle == [op |-> "", recv |-> NoValue, arg |-> <<>>, res |-> None]

\* A call that takes its receiver by value: a failed call leaves the caller
\* without it.
Returned_consumed(op, recv, arg, res) ==
    /\ out = Idle
    /\ out' = [op |-> op, recv |-> recv, arg |-> arg, res |-> res]
    /\ val' = IF res.tag = "Ok" THEN Value(res) ELSE NoValue

\* A call is made when no call is being looked at.  It records its receiver,
\* argument and result; the caller keeps the value a successful call
\* returned, and otherwise the value it had.
Returned(op, recv, arg, res) ==
    /\ out = Idle
    /\ out' = [op |-> op, recv |-> recv, arg |-> arg, res |-> res]
    /\ val' = IF res.tag = "Ok" THEN Value(res) ELSE val

Init ==
    /\ val = NoValue
    /\ out = Idle

\* A receiver of the given type, short enough to be joined onto.
Holds(t) == val.type = t /\ Len(val.path) <= MaxRecv

\* The bases try_into_absolute resolves against: AbsolutePath views.
Bases == {b \in Inputs : Len(b) <= MaxRecv /\ AbsolutePath_try_new(b).tag = "Ok"}

\* The arguments of join_relative: RelativePath views.
Relatives == {x \in Inputs : RelativePath_try_new(x).tag = "Ok"}

NewAbsolutePath ==
    /\ val = NoValue
    /\ \E p \in Inputs : Returned("AbsolutePath::try_new", NoValue, p, AbsolutePath_try_new(p))

NewAbsolutePathBuf ==
    /\ val = NoValue
    /\ \E p \in Inputs : Returned("AbsolutePathBuf::try_new", NoValue, p, AbsolutePathBuf_try_new(p))

NewRelativePath ==
    /\ val = NoValue
    /\ \E p \in Inputs : Returned("RelativePath::try_new", NoValue, p, RelativePath_try_new(p))

NewRelativePathBuf ==
    /\ val = NoValue
    /\ \E p \in Inputs : Returned("RelativePathBuf::try_new", NoValue, p, RelativePathBuf_try_new(p))

NewCombinedPath ==
    /\ val = NoValue
    /\ \E p \in Inputs : Returned("CombinedPath::try_new", NoValue, p, CombinedPath_try_new(p))

NewCombinedPathBuf ==
    /\ val = NoValue
    /\ \E p \in Inputs : Returned("CombinedPathBuf::try_new", NoValue, p, CombinedPathBuf_try_new(p))

AbsolutePathBufFromStr ==
    /\ val = NoValue
    /\ \E s \in Inputs :
          Returned("AbsolutePathBuf::from_str", NoValue, s, AbsolutePathBuf_from_str(s))

AbsolutePathBufDeserialize ==
    /\ val = NoValue
    /\ \E s \in Inputs :
          Returned("AbsolutePathBuf::deserialize", NoValue, s, AbsolutePathBuf_deserialize(s))

AbsolutePathBufFromSql ==
    /\ val = NoValue
    /\ \E s \in Inputs :
          Returned("AbsolutePathBuf::from_sql", NoValue, s, AbsolutePathBuf_from_sql(s))

CombinedPathBufFromStr ==
    /\ val = NoValue
    /\ \E s \in Inputs :
          Returned("CombinedPathBuf::from_str", NoValue, s, CombinedPathBuf_from_str(s))

CombinedPathBufDeserialize ==
    /\ val = NoValue
    /\ \E s \in Inputs :
          Returned("CombinedPathBuf::deserialize", NoValue, s, CombinedPathBuf_deserialize(s))

CombinedPathBufFromSql ==
    /\ val = NoValue
    /\ \E s \in Inputs :
          Returned("CombinedPathBuf::from_sql", NoValue, s, CombinedPathBuf_from_sql(s))

AbsolutePathJoin ==
    /\ Holds("AbsolutePath")
    /\ \E p \in Inputs :
          Returned("AbsolutePath::join", val, p, AbsolutePath_join(val.path, p))

AbsolutePathBufJoin ==
    /\ Holds("AbsolutePathBuf")
    /\ \E p \in Inputs :
          Returned("AbsolutePathBuf::join", val, p, AbsolutePathBuf_join(val.path, p))

\* a.join(r1)?.join(r2): the second join is made on the result of the first.
AbsolutePathBuf_join_join(self, r1, r2) ==
    LET x == AbsolutePathBuf_join(self, r1)
    IN  IF x.tag = "Ok" THEN AbsolutePathBuf_join(x.path, r2) ELSE x

AbsolutePathBufJoinJoin ==
    /\ Holds("AbsolutePathBuf")
    /\ \E r1 \in ChainArgs, r2 \in ChainArgs :
          Returned("AbsolutePathBuf::join.join", val, [first |-> r1, second |-> r2],
                   AbsolutePathBuf_join_join(val.path, r1, r2))

AbsolutePathJoinRelative ==
    /\ Holds("AbsolutePath")
    /\ \E p \in Relatives :
          Returned("AbsolutePath::join_relative", val, p,
                   AbsolutePath_join_relative(val.path, p))

AbsolutePathBufJoinRelative ==
    /\ Holds("AbsolutePathBuf")
    /\ \E p \in Relatives :
          Returned("AbsolutePathBuf::join_relative", val, p,
                   AbsolutePathBuf_join_relative(val.path, p))

AbsolutePathParent ==
    /\ val.type = "AbsolutePath"
    /\ Returned("AbsolutePath::parent", val, <<>>, AbsolutePath_parent(val.path))

AbsolutePathBufParent ==
    /\ val.type = "AbsolutePathBuf"
    /\ Returned("AbsolutePathBuf::parent", val, <<>>, AbsolutePathBuf_parent(val.path))

RelativePathJoin ==
    /\ Holds("RelativePath")
    /\ \E p \in Inputs :
          Returned("RelativePath::join", val, p, RelativePath_join(val.path, p))

RelativePathBufJoin ==
    /\ Holds("RelativePathBuf")
    /\ \E p \in Inputs :
          Returned("RelativePathBuf::join", val, p, RelativePathBuf_join(val.path, p))

RelativePathTryIntoAbsolute ==
    /\ Holds("RelativePath")
    /\ \E b \in Bases :
          Returned("RelativePath::try_into_absolute", val, b,
                   RelativePath_try_into_absolute(val.path, b))

RelativePathBufTryIntoAbsolute ==
    /\ Holds("RelativePathBuf")
    /\ \E b \in Bases :
          Returned("RelativePathBuf::try_into_absolute", val, b,
                   RelativePathBuf_try_into_absolute(val.path, b))

CombinedPathTryIntoAbsolute ==
    /\ val.type \in {"CombinedPath::Relative", "CombinedPath::Absolute"}
    /\ Len(val.path) <= MaxRecv
    /\ \E b \in Bases :
          Returned("CombinedPath::try_into_absolute", val, b,
                   CombinedPath_try_into_absolute(val, b))

CombinedPathBufTryIntoAbsolute ==
    /\ val.type \in {"CombinedPathBuf::Relative", "CombinedPathBuf::Absolute"}
    /\ Len(val.path) <= MaxRecv
    /\ \E b \in Bases :
          Returned("CombinedPathBuf::try_into_absolute", val, b,
                   CombinedPathBuf_try_into_absolute(val, b))

CombinedPathTypes == {"CombinedPath::Relative", "CombinedPath::Absolute"}

CombinedPathBufTypes == {"CombinedPathBuf::Relative", "CombinedPathBuf::Absolute"}

CombinedPathAsPath ==
    /\ val.type \in CombinedPathTypes
    /\ Returned("CombinedPath::as_path", val, <<>>, CombinedPath_as_path(val))

CombinedPathIsRelative ==
    /\ val.type \in CombinedPathTypes
    /\ Returned("CombinedPath::is_relative", val, <<>>, Bool(CombinedPath_is_relative(val)))

CombinedPathIsAbsolute ==
    /\ val.type \in CombinedPathTypes
    /\ Returned("CombinedPath::is_absolute", val, <<>>, Bool(CombinedPath_is_absolute(val)))

CombinedPathBufAsPath ==
    /\ val.type \in CombinedPathBufTypes
    /\ Returned("CombinedPathBuf::as_path", val, <<>>, CombinedPathBuf_as_path(val))

CombinedPathBufIsRelative ==
    /\ val.type \in CombinedPathBufTypes
    /\ Returned("CombinedPathBuf::is_relative", val, <<>>,
                Bool(CombinedPathBuf_is_relative(val)))

CombinedPathBufIsAbsolute ==
    /\ val.type \in CombinedPathBufTypes
    /\ Returned("CombinedPathBuf::is_absolute", val, <<>>,
                Bool(CombinedPathBuf_is_absolute(val)))

AbsolutePathBufSerialize ==
    /\ val.type = "AbsolutePathBuf"
    /\ Returned("AbsolutePathBuf::serialize", val, <<>>, AbsolutePathBuf_serialize(val.path))

AbsolutePathBufToSql ==
    /\ val.type = "AbsolutePathBuf"
    /\ Returned("AbsolutePathBuf::to_sql", val, <<>>, AbsolutePathBuf_to_sql(val.path))

CombinedPathBufSerialize ==
    /\ val.type \in CombinedPathBufTypes
    /\ Returned("CombinedPathBuf::serialize", val, <<>>, CombinedPathBuf_serialize(val))

CombinedPathBufToSql ==
    /\ val.type \in CombinedPathBufTypes
    /\ Returned("CombinedPathBuf::to_sql", val, <<>>, CombinedPathBuf_to_sql(val))

\* The caller is done looking at the last call.
Continue ==
    /\ out # Idle
    /\ out' = Idle
    /\ UNCHANGED val

\* The caller lets go of the value it holds.
Drop ==
    /\ out = Idle
    /\ val # NoValue
    /\ val' = NoValue
    /\ UNCHANGED out

Next ==
    \/ Continue
    \/ Drop
    \/ NewAbsolutePath
    \/ NewAbsolutePathBuf
    \/ NewRelativePath
    \/ NewRelativePathBuf
    \/ NewCombinedPath
    \/ NewCombinedPathBuf
    \/ AbsolutePathBufFromStr
    \/ AbsolutePathBufDeserialize
    \/ AbsolutePathBufFromSql
    \/ CombinedPathBufFromStr
    \/ CombinedPathBufDeserialize
    \/ CombinedPathBufFromSql
    \/ AbsolutePathJoin
    \/ AbsolutePathBufJoin
    \/ AbsolutePathBufJoinJoin
    \/ AbsolutePathJoinRelative
    \/ AbsolutePathBufJoinRelative
    \/ AbsolutePathParent
    \/ AbsolutePathBufParent
    \/ RelativePathJoin
    \/ RelativePathBufJoin
    \/ RelativePathTryIntoAbsolute
    \/ RelativePathBufTryIntoAbsolute
    \/ CombinedPathTryIntoAbsolute
    \/ CombinedPathBufTryIntoAbsolute
    \/ CombinedPathAsPath
    \/ CombinedPathIsRelative
    \/ CombinedPathIsAbsolute
    \/ CombinedPathBufAsPath
    \/ CombinedPathBufIsRelative
    \/ CombinedPathBufIsAbsolute
    \/ AbsolutePathBufSerialize
    \/ AbsolutePathBufToSql
    \/ CombinedPathBufSerialize
    \/ CombinedPathBufToSql

Spec == Init /\ [][Next]_vars

----------------------------------------------------------------------------
(* Reference notions the properties are stated with.  They read the raw     *)
(* text of a path, separator by separator, and do not use the crate's loop. *)

\* The non-empty separator-delimited segments, `.` and `..` included.
NonEmpty(s) == s # <<>>

TextSegments(p) == SelectSeq(RawSegments(p), NonEmpty)

NotDot(s) == s # Dot

HasDotSegment(p) == \E i \in 1..Len(TextSegments(p)) : TextSegments(p)[i] \in {Dot, DotDot}

\* Root-present with no `.` or `..` among the components the path is read as.
ValidAbsolute(p) ==
    /\ is_absolute(p)
    /\ \A i \in 1..Len(components(p)) : components(p)[i] \notin {Dot, DotDot}

\* Reading left to right with the number of regular segments still
\* uncancelled: some `..` is met when that number is zero.
RECURSIVE PastRootFrom(_, _, _)
PastRootFrom(segs, i, depth) ==
    IF i > Len(segs) THEN FALSE
    ELSE IF segs[i] = Dot THEN PastRootFrom(segs, i + 1, depth)
    ELSE IF segs[i] = DotDot
         THEN depth = 0 \/ PastRootFrom(segs, i + 1, depth - 1)
         ELSE PastRootFrom(segs, i + 1, depth + 1)

TraversesPastRoot(p) == PastRootFrom(TextSegments(p), 1, 0)

\* The first `..` that directly follows a regular segment, or 0.
FirstCancel(segs) ==
    LET I == {i \in 2..Len(segs) : segs[i] = DotDot /\ segs[i - 1] # DotDot}
    IN  IF I = {} THEN 0 ELSE CHOOSE i \in I : \A j \in I : i <= j

\* Cancel each `..` against the nearest preceding uncancelled regular
\* segment, by rewriting `x/..` to nothing until no such pair is left.
RECURSIVE Cancel(_)
Cancel(segs) ==
    LET i == FirstCancel(segs)
    IN  IF i = 0 THEN segs
        ELSE Cancel(SubSeq(segs, 1, i - 2) \o SubSeq(segs, i + 1, Len(segs)))

\* The reference normalization of a path's segments: every `.` dropped,
\* then every cancellable `..` cancelled; what is left is some `..`
\* segments followed by regular segments.
Reference(p) == Cancel(SelectSeq(TextSegments(p), NotDot))

\* The raw concatenation of a base and a candidate.
Concat(base, cand) ==
    IF base # <<>> /\ base[Len(base)] # Sep THEN base \o <<Sep>> \o cand ELSE base \o cand

AbsoluteJoins == {"AbsolutePath::join", "AbsolutePathBuf::join"}

AbsoluteJoinRelatives == {"AbsolutePath::join_relative", "AbsolutePathBuf::join_relative"}

RelativeJoins == {"RelativePath::join", "RelativePathBuf::join"}

\* The root-present path a root-bounded normalization was run on by the
\* last call, or the empty path when the last call ran none.
Normalized ==
    IF out.op = "AbsolutePathBuf::try_new" /\ is_absolute(out.arg) THEN out.arg
    ELSE IF /\ out.op \in AbsoluteJoins \cup AbsoluteJoinRelatives
            /\ is_absolute(out.recv.path)
            /\ is_relative(out.arg)
         THEN Concat(out.recv.path, out.arg)
         ELSE <<>>

P_ab == <<"/", "a", "/", "b">>

----------------------------------------------------------------------------
(* C1..C10 *)

\* C1: joining a relative candidate onto a valid absolute base either
\* fails with NormalizationFailed or returns a path that is root-present
\* and has no `.` or `..` component.
C1_JoinRootBoundary ==
    (/\ out.op \in AbsoluteJoins
     /\ ValidAbsolute(out.recv.path)
     /\ is_relative(out.arg))
    => \/ out.res.tag = "Err" /\ out.res.err = "NormalizationFailed"
       \/ out.res.tag = "Ok" /\ ValidAbsolute(out.res.path)

\* C2: AbsolutePathBuf::try_new, alone or under a join, fails with
\* NormalizationFailed whenever some `..` of the root-present path is met
\* with no regular segment left to cancel, whatever follows that `..`.
C2_TraversalPastRootFails ==
    (Normalized # <<>> /\ TraversesPastRoot(Normalized))
    => out.res = Err("NormalizationFailed", <<display(Normalized)>>)

\* C3: every AbsolutePath or AbsolutePathBuf value a call returned is
\* root-present and has no `.` or `..` component.
C3_AbsoluteInvariant ==
    val.type \in {"AbsolutePath", "AbsolutePathBuf"} => ValidAbsolute(val.path)

\* C4: a join of a relative candidate onto an absolute base returns what
\* AbsolutePathBuf::try_new returns on the raw concatenation of the two:
\* the same path, or NormalizationFailed with that concatenation's text
\* (/a/b join a = /a/b/a, join ../a = /a/a, join ./a = /a/b/a).
C4_JoinIsTryNewOfConcat ==
    (/\ out.op \in AbsoluteJoins
     /\ is_absolute(out.recv.path)
     /\ is_relative(out.arg))
    => /\ out.res = AbsolutePathBuf_try_new(Concat(out.recv.path, out.arg))
       /\ out.res.tag = "Err"
            => out.res = Err("NormalizationFailed", <<Concat(out.recv.path, out.arg)>>)
       /\ (out.recv.path = P_ab /\ out.arg = <<"a">>)
            => out.res = Ok("AbsolutePathBuf", <<"/", "a", "/", "b", "/", "a">>)
       /\ (out.recv.path = P_ab /\ out.arg = <<".", ".", "/", "a">>)
            => out.res = Ok("AbsolutePathBuf", <<"/", "a", "/", "a">>)
       /\ (out.recv.path = P_ab /\ out.arg = <<".", "/", "a">>)
            => out.res.tag = "Ok" /\ PathEq(out.res.path, <<"/", "a", "/", "b", "/", "a">>)

C4_Witness ==
    /\ out.op \in AbsoluteJoins
    /\ out.recv.path = P_ab
    /\ out.arg = <<".", ".", "/", "a">>
    /\ out.res.tag = "Ok"

\* C5: for a root-present input whose `..` segments never traverse past
\* the root and that does not collapse to the bare root,
\* AbsolutePathBuf::try_new succeeds with the root followed by the
\* reference normalization of the input (paths compared as Path compares
\* them), and so never with a not-normalized error.
C5_TryNewNormalizes ==
    (/\ out.op = "AbsolutePathBuf::try_new"
     /\ is_absolute(out.arg)
     /\ ~TraversesPastRoot(out.arg)
     /\ Reference(out.arg) # <<>>)
    => /\ out.res.tag = "Ok"
       /\ is_absolute(out.res.path)
       /\ components(out.res.path) = <<RootDir>> \o Reference(out.arg)

C5_Witness ==
    /\ out.op = "AbsolutePathBuf::try_new"
    /\ out.arg = <<"/", "a", "/", ".", ".", "/", "b">>
    /\ out.res = Ok("AbsolutePathBuf", <<"/", "b">>)

\* C6: RelativePathBuf::try_new on a root-absent input returns the
\* reference unbounded normalization: a `..` with nothing to cancel stays
\* and is not cancelled by a later `..`, so the leading `..` segments of
\* the input are all kept.
C6_RelativeNormalizes ==
    (out.op = "RelativePathBuf::try_new" /\ is_relative(out.arg))
    => /\ out.res.tag = "Ok"
       /\ components(out.res.path) = Reference(out.arg)

\* C7 as stated: a root-bounded normalization that collapses the path to
\* exactly the root is rejected with NormalizationFailed.
C7_RootCollapseRejected ==
    (/\ Normalized # <<>>
     /\ HasDotSegment(Normalized)
     /\ ~TraversesPastRoot(Normalized)
     /\ Reference(Normalized) = <<>>)
    => out.res = Err("NormalizationFailed", <<display(Normalized)>>)

\* C7 amended: a root-bounded normalization that collapses the path to
\* exactly the root, without traversing past it, succeeds and returns the
\* root path.
C7_RootCollapseReturnsRoot ==
    (/\ Normalized # <<>>
     /\ HasDotSegment(Normalized)
     /\ ~TraversesPastRoot(Normalized)
     /\ Reference(Normalized) = <<>>)
    => /\ out.res.tag = "Ok"
       /\ components(out.res.path) = <<RootDir>>

C7_Witness ==
    /\ out.op = "AbsolutePath::join"
    /\ out.recv.path = P_ab
    /\ out.arg = <<".", ".", "/", ".", ".">>
    /\ out.res = Ok("AbsolutePathBuf", <<"/">>)

\* The candidates made of `..` segments only, and how many they have.
AllDotDot(p) ==
    /\ is_relative(p)
    /\ \A i \in 1..Len(TextSegments(p)) : TextSegments(p)[i] = DotDot

\* Segments beyond the root of a valid absolute path.
Depth(p) == Len(components(p)) - 1

\* C8: onto a valid absolute base with d segments beyond the root, a join
\* of d `..` segments returns the root path, and a join of d+1 `..`
\* segments fails with NormalizationFailed carrying the text of the
\* unnormalized joined path.
C8_JoinBackToRoot ==
    (/\ out.op \in AbsoluteJoins
     /\ ValidAbsolute(out.recv.path)
     /\ AllDotDot(out.arg))
    => /\ Len(TextSegments(out.arg)) = Depth(out.recv.path)
            => /\ out.res.tag = "Ok"
               /\ is_absolute(out.res.path)
               /\ PathEq(out.res.path, <<"/">>)
       /\ Len(TextSegments(out.arg)) = Depth(out.recv.path) + 1
            => out.res = Err("NormalizationFailed", <<Concat(out.recv.path, out.arg)>>)

C8_Witness ==
    /\ out.op = "AbsolutePathBuf::join"
    /\ out.recv.path = P_ab
    /\ out.arg = <<".", ".", "/", ".", ".", "/", ".", ".">>
    /\ out.res.tag = "Err"

\* C9: every join (absolute or relative receiver, view or owning) given a
\* root-present candidate fails with JoinedAbsolute carrying the text of
\* the receiver and of the candidate, and the caller is left with the
\* receiver, not with the candidate.
C9_JoinedAbsolute ==
    (out.op \in AbsoluteJoins \cup RelativeJoins /\ is_absolute(out.arg))
    => /\ out.res = Err("JoinedAbsolute", <<out.recv.path, out.arg>>)
       /\ val = out.recv

C9_Witness ==
    /\ out.op = "RelativePath::join"
    /\ out.recv.path = <<"a">>
    /\ out.arg = <<"/", "b">>
    /\ out.res.tag = "Err"

\* C10: AbsolutePath::try_new accepts an input exactly when it is
\* root-present and none of its separator-delimited segments is `.` or
\* `..`; a root-absent input gets NotAbsolute, a root-present one with a
\* `.` or `..` segment gets WasNotNormalized, each with the input's text,
\* and an accepted input is returned unchanged.
C10_AbsolutePathRejection ==
    out.op = "AbsolutePath::try_new"
    => out.res = IF is_relative(out.arg) THEN Err("NotAbsolute", <<out.arg>>)
                 ELSE IF HasDotSegment(out.arg) THEN Err("WasNotNormalized", <<out.arg>>)
                 ELSE Ok("AbsolutePath", out.arg)

----------------------------------------------------------------------------
(* C11..C20 *)

\* The path begins with the root marker.
RootPresent(p) == p # <<>> /\ Head(p) = Sep

\* C11: RelativePath::try_new and RelativePathBuf::try_new reject exactly
\* the root-present inputs, with NotRelative carrying the input's text, and
\* never fail on a root-absent input; RelativePath::try_new stores an
\* accepted input verbatim, `.` and `..` segments included.
C11_RelativeRejection ==
    (out.op \in {"RelativePath::try_new", "RelativePathBuf::try_new"})
    => /\ RootPresent(out.arg) => out.res = Err("NotRelative", <<out.arg>>)
       /\ ~RootPresent(out.arg) => out.res.tag = "Ok" /\ ~RootPresent(out.res.path)
       /\ (out.op = "RelativePath::try_new" /\ ~RootPresent(out.arg))
            => out.res = Ok("RelativePath", out.arg)

C11_Witness ==
    /\ out.op = "RelativePath::try_new"
    /\ out.arg = <<"a", "/", ".", ".", "/", ".">>
    /\ out.res = Ok("RelativePath", out.arg)

\* The base and the relative path of the last call, when it resolved a
\* relative path against a valid absolute base (try_into_absolute,
\* join_relative, or join with a root-absent candidate).
Resolved ==
    IF out.op \in {"RelativePath::try_into_absolute", "RelativePathBuf::try_into_absolute"}
    THEN [is |-> TRUE, base |-> out.arg, rel |-> out.recv.path]
    ELSE IF /\ out.op \in AbsoluteJoins \cup AbsoluteJoinRelatives
            /\ ValidAbsolute(out.recv.path)
            /\ ~RootPresent(out.arg)
         THEN [is |-> TRUE, base |-> out.recv.path, rel |-> out.arg]
         ELSE [is |-> FALSE, base |-> <<>>, rel |-> <<>>]

\* C12: for a relative path R and a valid absolute base A,
\* R.try_into_absolute(A), A.join_relative(R) and A.join(R) return the
\* same result, and it is a path or NormalizationFailed: never
\* JoinedAbsolute, never NotAbsolute, never a panic.
C12_ResolveAgrees ==
    Resolved.is
    => /\ out.res = RelativePath_try_into_absolute(Resolved.rel, Resolved.base)
       /\ out.res = RelativePathBuf_try_into_absolute(Resolved.rel, Resolved.base)
       /\ out.res = AbsolutePath_join_relative(Resolved.base, Resolved.rel)
       /\ out.res = AbsolutePathBuf_join_relative(Resolved.base, Resolved.rel)
       /\ out.res = AbsolutePath_join(Resolved.base, Resolved.rel)
       /\ out.res = AbsolutePathBuf_join(Resolved.base, Resolved.rel)
       /\ \/ out.res.tag = "Ok"
          \/ out.res = Err("NormalizationFailed",
                           <<Concat(Resolved.base, Resolved.rel)>>)

C12_Witness ==
    /\ out.op = "RelativePath::try_into_absolute"
    /\ out.recv.path = <<".", ".", "/", "a">>
    /\ out.arg = P_ab
    /\ out.res = Ok("AbsolutePathBuf", <<"/", "a", "/", "a">>)

Parents == {"AbsolutePath::parent", "AbsolutePathBuf::parent"}

\* C14: parent() of an AbsolutePath or AbsolutePathBuf value that a call
\* returned does not fail or panic; it returns no value exactly when the
\* path is the root, and otherwise the path without its final segment,
\* which is root-present and free of `.` and `..`.
C14_ParentTotal ==
    out.op \in Parents
    => /\ out.res.tag \in {"Ok", "None"}
       /\ out.res.tag = "None" <=> components(out.recv.path) = <<RootDir>>
       /\ out.res.tag = "Ok"
            => /\ ValidAbsolute(out.res.path)
               /\ components(out.res.path)
                    = SubSeq(components(out.recv.path), 1, Len(components(out.recv.path)) - 1)

\* C15: CombinedPath::try_new fails only with WasNotNormalized, exactly
\* when the input is root-present and has a `.` or `..` segment;
\* CombinedPathBuf::try_new fails only with NormalizationFailed, exactly
\* when AbsolutePathBuf::try_new fails on the same root-present input, with
\* the same text; neither fails on a root-absent input.
C15_CombinedRejection ==
    /\ out.op = "CombinedPath::try_new"
         => IF RootPresent(out.arg) /\ HasDotSegment(out.arg)
            THEN out.res = Err("WasNotNormalized", <<out.arg>>)
            ELSE out.res.tag = "Ok"
    /\ out.op = "CombinedPathBuf::try_new"
         => IF RootPresent(out.arg) /\ AbsolutePathBuf_try_new(out.arg).tag # "Ok"
            THEN /\ out.res = AbsolutePathBuf_try_new(out.arg)
                 /\ out.res = Err("NormalizationFailed", <<out.arg>>)
            ELSE out.res.tag = "Ok"

CombinedNews == {"CombinedPath::try_new", "CombinedPathBuf::try_new"}

RelativeVariants == {"CombinedPath::Relative", "CombinedPathBuf::Relative"}

AbsoluteVariants == {"CombinedPath::Absolute", "CombinedPathBuf::Absolute"}

\* The calls that only look at a combined value.
CombinedReads ==
    {"CombinedPath::as_path", "CombinedPath::is_relative", "CombinedPath::is_absolute",
     "CombinedPathBuf::as_path", "CombinedPathBuf::is_relative",
     "CombinedPathBuf::is_absolute"}

\* C16: the variant of a CombinedPath or CombinedPathBuf is decided by the
\* input's root marker alone: a root-absent input yields Relative, an
\* accepted root-present input yields Absolute; of is_relative() and
\* is_absolute() exactly one is true, is_relative() exactly for the
\* Relative variant, and as_path, the predicates and a failed
\* try_into_absolute leave the caller with the value and variant it had.
C16_VariantFixed ==
    /\ (out.op \in CombinedNews /\ ~RootPresent(out.arg))
         => out.res.tag = "Ok" /\ out.res.type \in RelativeVariants
    /\ (out.op \in CombinedNews /\ RootPresent(out.arg) /\ out.res.tag = "Ok")
         => out.res.type \in AbsoluteVariants
    /\ val.type \in CombinedPathTypes
         => /\ CombinedPath_is_relative(val) # CombinedPath_is_absolute(val)
            /\ CombinedPath_is_relative(val) <=> ~RootPresent(val.path)
    /\ val.type \in CombinedPathBufTypes
         => /\ CombinedPathBuf_is_relative(val) # CombinedPathBuf_is_absolute(val)
            /\ CombinedPathBuf_is_relative(val) => ~RootPresent(val.path)
    /\ out.op \in {"CombinedPath::is_relative", "CombinedPathBuf::is_relative"}
         => out.res = Bool(out.recv.type \in RelativeVariants)
    /\ out.op \in {"CombinedPath::is_absolute", "CombinedPathBuf::is_absolute"}
         => out.res = Bool(out.recv.type \in AbsoluteVariants)
    /\ out.op \in CombinedReads => val = out.recv
    /\ (/\ out.op \in {"CombinedPath::try_into_absolute", "CombinedPathBuf::try_into_absolute"}
        /\ out.res.tag # "Ok")
         => val = out.recv

C16_Witness ==
    /\ out.op = "CombinedPathBuf::is_absolute"
    /\ out.recv = [type |-> "CombinedPathBuf::Absolute", path |-> <<"b">>]
    /\ out.res = Bool(TRUE)

\* C17: try_into_absolute(base) on an Absolute CombinedPath or
\* CombinedPathBuf returns an AbsolutePathBuf holding the wrapped path,
\* whatever the base, and never fails; on a Relative variant it returns
\* what the wrapped relative path's try_into_absolute(base) returns, which
\* is a success or NormalizationFailed carrying the display string of the
\* base joined with the relative path.
C17_CombinedResolve ==
    /\ out.op = "CombinedPath::try_into_absolute"
         => IF out.recv.type = "CombinedPath::Absolute"
            THEN out.res = Ok("AbsolutePathBuf", out.recv.path)
            ELSE /\ out.res = RelativePath_try_into_absolute(out.recv.path, out.arg)
                 /\ \/ out.res.tag = "Ok"
                    \/ out.res = Err("NormalizationFailed",
                                     <<display(join(out.arg, out.recv.path))>>)
    /\ out.op = "CombinedPathBuf::try_into_absolute"
         => IF out.recv.type = "CombinedPathBuf::Absolute"
            THEN out.res = Ok("AbsolutePathBuf", out.recv.path)
            ELSE /\ out.res = RelativePathBuf_try_into_absolute(out.recv.path, out.arg)
                 /\ \/ out.res.tag = "Ok"
                    \/ out.res = Err("NormalizationFailed",
                                     <<display(join(out.arg, out.recv.path))>>)

C17_Witness ==
    /\ out.op = "CombinedPath::try_into_absolute"
    /\ out.recv = [type |-> "CombinedPath::Absolute", path |-> P_ab]
    /\ out.arg = <<"/", "b">>
    /\ out.res = Ok("AbsolutePathBuf", P_ab)

\* C18: join is lexically associative: for a valid absolute base A and
\* root-absent candidates R1 and R2, when A.join(R1).join(R2) and
\* A.join(R1/R2), R1 and R2 put together with a separator, both succeed,
\* the two results are equal paths.
C18_JoinAssociative ==
    (/\ out.op = "AbsolutePathBuf::join.join"
     /\ ValidAbsolute(out.recv.path)
     /\ ~RootPresent(out.arg.first)
     /\ ~RootPresent(out.arg.second))
    => LET one == AbsolutePathBuf_join(out.recv.path,
                                       out.arg.first \o <<Sep>> \o out.arg.second)
       IN  (out.res.tag = "Ok" /\ one.tag = "Ok")
           => /\ out.res.type = one.type
              /\ PathEq(out.res.path, one.path)

C18_Witness ==
    /\ out.op = "AbsolutePathBuf::join.join"
    /\ out.recv.path = <<"/", "a">>
    /\ out.arg = [first |-> <<"a", "/">>, second |-> <<"a">>]
    /\ out.res = Ok("AbsolutePathBuf", <<"/", "a", "/", "a", "/", "a">>)
    /\ AbsolutePathBuf_join(out.recv.path, <<"a", "/", "/", "a">>)
         = Ok("AbsolutePathBuf", <<"/", "a", "/", "a", "/", "/", "a">>)

\* What the constructor named by op returns for the path p.
Construct(op, p) ==
    IF op = "AbsolutePath::try_new" THEN AbsolutePath_try_new(p)
    ELSE IF op = "AbsolutePathBuf::try_new" THEN AbsolutePathBuf_try_new(p)
    ELSE IF op = "RelativePath::try_new" THEN RelativePath_try_new(p)
    ELSE RelativePathBuf_try_new(p)

\* C19: round trip: a value returned by AbsolutePath::try_new,
\* AbsolutePathBuf::try_new, RelativePath::try_new or
\* RelativePathBuf::try_new, rendered to its display string and given to
\* the same constructor, is accepted and yields an equal value.
C19_RoundTrip ==
    (/\ out.op \in {"AbsolutePath::try_new", "AbsolutePathBuf::try_new",
                    "RelativePath::try_new", "RelativePathBuf::try_new"}
     /\ out.res.tag = "Ok")
    => LET again == Construct(out.op, display(out.res.path))
       IN  /\ again.tag = "Ok"
           /\ again.type = out.res.type
           /\ PathEq(again.path, out.res.path)

\* C20: normalization is the identity on normalized input: for a
\* root-present input with no `.` or `..` component,
\* AbsolutePathBuf::try_new succeeds and the path it returns is the input,
\* character for character.
C20_NormalizedIdentity ==
    (out.op = "AbsolutePathBuf::try_new" /\ ValidAbsolute(out.arg))
    => out.res = Ok("AbsolutePathBuf", out.arg)

C20_Witness ==
    /\ out.op = "AbsolutePathBuf::try_new"
    /\ out.arg = <<"/", "a", "/", "/", "b">>
    /\ ValidAbsolute(out.arg)
    /\ out.res = Ok("AbsolutePathBuf", <<"/", "a", "/", "/", "b">>)

(* C21..C30 *)

AbsoluteDecoders ==
    {"AbsolutePathBuf::from_str", "AbsolutePathBuf::deserialize", "AbsolutePathBuf::from_sql"}

CombinedDecoders ==
    {"CombinedPathBuf::from_str", "CombinedPathBuf::deserialize", "CombinedPathBuf::from_sql"}

\* C21: an AbsolutePathBuf or CombinedPathBuf built from text through
\* FromStr, serde deserialization or text-column decoding has the outcome
\* of the type's try_new on that text: the same value when try_new
\* succeeds, an error when try_new fails, which it does only on root-absent
\* text (AbsolutePathBuf) or on text that traverses past the root; the
\* CombinedPathBuf variant follows the root marker of the text.
C21_DecodeIsTryNew ==
    /\ out.op \in AbsoluteDecoders
         => LET t == AbsolutePathBuf_try_new(out.arg)
            IN  /\ t.tag = "Ok" => out.res = t
                /\ t.tag # "Ok" => out.res.tag = "Err" /\ out.res.msg # <<>>
                /\ out.res.tag \in {"Ok", "Err"}
                /\ out.res.tag = "Err"
                     => ~RootPresent(out.arg) \/ TraversesPastRoot(out.arg)
    /\ out.op \in CombinedDecoders
         => LET t == CombinedPathBuf_try_new(out.arg)
            IN  /\ t.tag = "Ok" => out.res = t
                /\ t.tag # "Ok" => out.res.tag = "Err" /\ out.res.msg # <<>>
                /\ out.res.tag \in {"Ok", "Err"}
                /\ out.res.tag = "Err"
                     => RootPresent(out.arg) /\ TraversesPastRoot(out.arg)
                /\ out.res.tag = "Ok"
                     => (out.res.type = "CombinedPathBuf::Relative"
                           <=> ~RootPresent(out.arg))
    /\ (out.op = "AbsolutePathBuf::deserialize" /\ out.res.tag = "Err")
         => out.res = Err("serde::de::Error::custom",
                          <<Display(AbsolutePathBuf_try_new(out.arg))>>)

C21_Witness ==
    /\ out.op = "AbsolutePathBuf::deserialize"
    /\ out.arg = <<"/", "a", "/", ".", ".", "/", "b">>
    /\ out.res = Ok("AbsolutePathBuf", <<"/", "b">>)

\* C22: no sequence of public operations on values obtained from the
\* public constructors reaches a panic: no expect() on a failed
\* construction and no unreachable!() arm is executed.
C22_NoPanic == out.res.tag # "Panic"

\* C23: collapsing early does not change resolution: for a root-absent
\* input X and a valid absolute base A, resolving the RelativePathBuf built
\* from X against A succeeds exactly when resolving the RelativePath view
\* of X does, and then both give equal paths; likewise for the
\* CombinedPathBuf and the CombinedPath built from X.
C23_EarlyCollapse ==
    /\ (out.op = "RelativePathBuf::try_new" /\ ~RootPresent(out.arg) /\ out.res.tag = "Ok")
         => \A A \in Bases :
               ValidAbsolute(A)
               => LET early == RelativePathBuf_try_into_absolute(out.res.path, A)
                      late == RelativePath_try_into_absolute(
                                  RelativePath_try_new(out.arg).path, A)
                  IN  /\ early.tag = "Ok" <=> late.tag = "Ok"
                      /\ early.tag = "Ok" => PathEq(early.path, late.path)
    /\ (out.op = "CombinedPathBuf::try_new" /\ ~RootPresent(out.arg) /\ out.res.tag = "Ok")
         => \A A \in Bases :
               ValidAbsolute(A)
               => LET view == CombinedPath_try_new(out.arg)
                      early == CombinedPathBuf_try_into_absolute(
                                   [type |-> out.res.type, path |-> out.res.path], A)
                      late == CombinedPath_try_into_absolute(
                                  [type |-> view.type, path |-> view.path], A)
                  IN  /\ early.tag = "Ok" <=> late.tag = "Ok"
                      /\ early.tag = "Ok" => PathEq(early.path, late.path)

AbsoluteTypes == {"AbsolutePath", "AbsolutePathBuf"}

\* C24 as stated: every AbsolutePath and AbsolutePathBuf value has a
\* segment beyond the root: no call returns the bare root as a success.
C24_BeyondRoot ==
    (out.res.tag = "Ok" /\ out.res.type \in AbsoluteTypes)
    => components(out.res.path) # <<RootDir>>

\* C24 amended: the bare root is an AbsolutePath and AbsolutePathBuf
\* value: try_new("/") succeeds and parent() of a path with one segment
\* beyond the root returns the root; what no constructor, join,
\* join_relative, parent or try_into_absolute returns as a success is a
\* path without any component.
C24_RootIsAValue ==
    /\ (out.res.tag = "Ok" /\ out.res.type \in AbsoluteTypes)
         => components(out.res.path) # <<>>
    /\ (out.op \in {"AbsolutePath::try_new", "AbsolutePathBuf::try_new"}
        /\ out.arg = RootDir)
         => out.res.tag = "Ok" /\ out.res.path = RootDir
    /\ (/\ out.op \in {"AbsolutePath::parent", "AbsolutePathBuf::parent"}
        /\ Len(components(out.recv.path)) = 2
        /\ ValidAbsolute(out.recv.path))
         => out.res = Ok("AbsolutePath", RootDir)

C24_Witness ==
    /\ out.op = "AbsolutePathBuf::parent"
    /\ out.recv.path = <<"/", "a">>
    /\ out.res = Ok("AbsolutePath", RootDir)

C26_ViewAndOwnedAgree ==
    /\ (out.op \in AbsoluteJoins /\ ValidAbsolute(out.recv.path))
         => /\ out.res = AbsolutePath_join(AbsolutePath_try_new(out.recv.path).path, out.arg)
            /\ out.res = AbsolutePathBuf_join(AbsolutePathBuf_try_new(out.recv.path).path,
                                              out.arg)
    /\ (out.op \in AbsoluteJoinRelatives /\ ValidAbsolute(out.recv.path))
         => /\ out.res = AbsolutePath_join_relative(
                             AbsolutePath_try_new(out.recv.path).path, out.arg)
            /\ out.res = AbsolutePathBuf_join_relative(
                             AbsolutePathBuf_try_new(out.recv.path).path, out.arg)
    /\ (out.op \in Parents /\ ValidAbsolute(out.recv.path))
         => /\ out.res = AbsolutePath_parent(AbsolutePath_try_new(out.recv.path).path)
            /\ out.res = AbsolutePathBuf_parent(AbsolutePathBuf_try_new(out.recv.path).path)

C26_Witness ==
    /\ out.op = "AbsolutePath::join"
    /\ out.recv.path = P_ab
    /\ out.arg = <<"/", "a">>
    /\ out.res = Err("JoinedAbsolute", <<P_ab, <<"/", "a">> >>)
    /\ out.res = AbsolutePathBuf_join(P_ab, <<"/", "a">>)

Encoders ==
    {"AbsolutePathBuf::serialize", "AbsolutePathBuf::to_sql",
     "CombinedPathBuf::serialize", "CombinedPathBuf::to_sql"}

\* C27: the string an owning path type emits when serialized or encoded
\* to a text column is the normalized display string: for an absolute
\* value, whatever text it was built from, the emitted string is the
\* value's display string, starts at the root and has no `.` or `..`
\* segment.
C27_EncodesNormalized ==
    (/\ out.op \in Encoders
     /\ out.recv.type \in {"AbsolutePathBuf", "CombinedPathBuf::Absolute"})
    => /\ out.res.tag = "Text"
       /\ out.res.path = display(out.recv.path)
       /\ RootPresent(out.res.path)
       /\ ~HasDotSegment(out.res.path)

\* The calls made on a value through a shared reference.
FrameOps ==
    AbsoluteJoins \cup AbsoluteJoinRelatives \cup RelativeJoins \cup Parents \cup CombinedReads
    \cup {"RelativePath::try_into_absolute", "RelativePathBuf::try_into_absolute",
          "CombinedPath::try_into_absolute", "CombinedPathBuf::try_into_absolute"}

C29_ParentChain ==
    (out.op \in Parents /\ ValidAbsolute(out.recv.path))
    => LET n == Len(components(out.recv.path)) - 1
       IN  IF n = 0
           THEN out.res = None /\ val = out.recv
           ELSE /\ out.res.tag = "Ok"
                /\ out.res.type = "AbsolutePath"
                /\ ValidAbsolute(out.res.path)
                /\ ~HasDotSegment(out.recv.path) => ~HasDotSegment(out.res.path)
                /\ Len(components(out.res.path)) - 1 = n - 1
                /\ val = [type |-> "AbsolutePath", path |-> out.res.path]

C29_Witness ==
    /\ out.op = "AbsolutePath::parent"
    /\ out.recv.path = RootDir
    /\ out.res = None

\* One regular segment: not empty, no separator, neither `.` nor `..`.
Regular(s) ==
    /\ s # <<>>
    /\ s \notin {Dot, DotDot}
    /\ \A i \in 1..Len(s) : s[i] # Sep

\* C30: parent() undoes a one-segment join: for a valid absolute path A,
\* the root included, and one regular segment s, A.join(s) succeeds and
\* A.join(s).parent() returns a value equal to A.
C30_ParentUndoesJoin ==
    (out.op \in AbsoluteJoins /\ ValidAbsolute(out.recv.path) /\ Regular(out.arg))
    => /\ out.res.tag = "Ok"
       /\ val = [type |-> "AbsolutePathBuf", path |-> out.res.path]
       /\ LET back == AbsolutePathBuf_parent(val.path)
          IN  /\ back.tag = "Ok"
              /\ back.type = "AbsolutePath"
              /\ PathEq(back.path, out.recv.path)

C30_Witness ==
    /\ out.op = "AbsolutePathBuf::join"
    /\ out.recv.path = RootDir
    /\ out.arg = <<"a">>
    /\ out.res = Ok("AbsolutePathBuf", <<"/", "a">>)
    /\ AbsolutePathBuf_parent(val.path) = Ok("AbsolutePath", RootDir)

====
